---- MODULE Spec2Model ----
(***************************************************************************)
(* Verification model of the fuzzy-systems repository:                     *)
(*   - CarSimulation (src/src/simulation/car_simulation.py): the plant,    *)
(*     its update / reset / record_state / get_state operations and the    *)
(*     test_constant_throttle driver loop;                                 *)
(*   - triangle / trapezoid (src/laby/lab1/zad1.py): the membership        *)
(*     functions;                                                          *)
(*   - FuzzyThrottleController (src/src/core_fuzzy/fuzzy_controller.py)    *)
(*     and the fuzzy inference it runs;                                    *)
(*   - the scripts of src/laby (tipper, hamowanie, jakosc-owocow) and the  *)
(*     rule bases they build;                                              *)
(*   - FuzzyCarUI (src/src/ui/ui_app.py): the simulation window.           *)
(* Python floats are modelled as exact rationals <<num, den>> in lowest    *)
(* terms with den > 0.  A division by zero yields ZeroDivisionError.       *)
(***************************************************************************)
EXTENDS Integers, Sequences, FiniteSets, TLC

VARIABLES mass, drag_coeff, max_throttle, dt,
          position, speed, acceleration, history,
          ret, last, steps, drv, mf,
          simulator, callers, rule_base, brake,
          script, app

vars == <<mass, drag_coeff, max_throttle, dt,
          position, speed, acceleration, history,
          ret, last, steps, drv, mf,
          simulator, callers, rule_base, brake,
          script, app>>

carParams == <<mass, drag_coeff, max_throttle, dt>>
carState == <<position, speed, acceleration>>
fuzzyVars == <<simulator, callers, rule_base, brake, script, app>>

(***************************************************************************)
(* Bounds of the model.                                                    *)
(***************************************************************************)
MaxSteps == 3
MaxHist == 1
MaxHoldSteps == 10
MaxPt == 3

(***************************************************************************)
(* Rational arithmetic standing for Python float arithmetic.               *)
(***************************************************************************)
Abs(i) == IF i < 0 THEN -i ELSE i

RECURSIVE GCD(_, _)
GCD(m, n) == IF n = 0 THEN m ELSE GCD(n, m % n)

ZeroDivisionError == <<0, 0>>
\* The ValueError scikit-fuzzy raises from ControlSystemSimulation.compute().
ValueError == <<0, 0, 0>>

R(n, d) ==
    IF d = 0 THEN ZeroDivisionError
    ELSE LET g == GCD(Abs(n), Abs(d))
             s == IF d < 0 THEN -1 ELSE 1
         IN <<(s * n) \div g, (s * d) \div g>>

Z(i) == <<i, 1>>

RAdd(p, q) ==
    IF p[2] = 0 \/ q[2] = 0 THEN ZeroDivisionError
    ELSE LET g == GCD(p[2], q[2])
             l == (p[2] \div g) * q[2]
         IN R(p[1] * (l \div p[2]) + q[1] * (l \div q[2]), l)

RNeg(p) == <<-p[1], p[2]>>

RSub(p, q) == RAdd(p, RNeg(q))

RMul(p, q) ==
    LET g1 == GCD(Abs(p[1]), q[2])
        g2 == GCD(Abs(q[1]), p[2])
    IN R((p[1] \div g1) * (q[1] \div g2), (p[2] \div g2) * (q[2] \div g1))

RDiv(p, q) ==
    IF q[1] = 0 THEN ZeroDivisionError
    ELSE RMul(p, IF q[1] < 0 THEN <<-q[2], -q[1]>> ELSE <<q[2], q[1]>>)

\* Comparison over the common denominator.
RLe(p, q) ==
    LET g == GCD(p[2], q[2])
    IN p[1] * (q[2] \div g) <= q[1] * (p[2] \div g)

RLt(p, q) ==
    LET g == GCD(p[2], q[2])
    IN p[1] * (q[2] \div g) < q[1] * (p[2] \div g)

RMax(p, q) == IF RLt(p, q) THEN q ELSE p

RMin(p, q) == IF RLt(q, p) THEN q ELSE p

RAbs(p) == <<Abs(p[1]), p[2]>>

(***************************************************************************)
(* CarSimulation: constructor defaults and the input values drawn.         *)
(***************************************************************************)
DefaultMass == 1000
DefaultDragCoeff == 50
DefaultMaxThrottle == 5000

None == <<>>

MassValues == {Z(DefaultMass \div 2), Z(DefaultMass)}
DtValues == {Z(10), Z(30)}
HoldDts == {Z(10), Z(20), Z(30)}
ThrottleArgs == {Z(-20), Z(0), Z(50), Z(130)}
DtArgs == {None, Z(-10), Z(0)}
TimeArgs == {Z(1)}
RecordThrottleArgs == {Z(130)}
HoldThrottles == {Z(25), Z(50), Z(100)}

EmptyHistory ==
    [time |-> <<>>, position |-> <<>>, speed |-> <<>>,
     acceleration |-> <<>>, throttle |-> <<>>]

NoCall == [op |-> "init", throttle |-> None, dt |-> None, time |-> None]
NoDriver == [pc |-> "idle", throttle_value |-> None,
             current_time |-> None, duration |-> None]
NoMf == [fn |-> "none", x |-> None, a |-> None, b |-> None, c |-> None,
         d |-> None, out |-> None]

\* No FuzzyThrottleController and no braking script in this behaviour.
NoSimulator == [input |-> [speed_error |-> None, acceleration |-> None],
                output |-> [throttle |-> None]]
NoBrake == [pc |-> "idle", distance |-> None, braking |-> None]
\* No script of laby/ and no window of the UI in this behaviour.
NoScript == [file |-> "none", pc |-> 0]
NoApp == [running |-> FALSE]
FuzzyIdle ==
    /\ simulator = NoSimulator
    /\ callers = <<>>
    /\ rule_base = <<>>
    /\ brake = NoBrake
    /\ script = NoScript
    /\ app = NoApp

\* CarSimulation.__init__(mass, drag_coeff, max_throttle, dt)
CarInit(masses, dts) ==
    /\ mass \in masses
    /\ drag_coeff = Z(DefaultDragCoeff)
    /\ max_throttle = Z(DefaultMaxThrottle)
    /\ dt \in dts
    /\ position = Z(0)
    /\ speed = Z(0)
    /\ acceleration = Z(0)
    /\ history = EmptyHistory
    /\ ret = None
    /\ last = NoCall
    /\ steps = 0

Init ==
    /\ CarInit(MassValues, DtValues)
    /\ drv = NoDriver
    /\ mf = NoMf
    /\ FuzzyIdle

\* np.clip(throttle, 0, 100)
clip(v, lo, hi) == RMin(RMax(v, lo), hi)

\* Mutant of throttle_force: the pedal is read inverted.
throttle_force_inverted(throttle) ==
    RMul(RDiv(RSub(Z(100), throttle), Z(100)), max_throttle)

\* throttle_force = (throttle / 100.0) * self.max_throttle
throttle_force(throttle) == RMul(RDiv(throttle, Z(100)), max_throttle)

\* drag_force = self.drag_coeff * self.speed
drag_force == RMul(drag_coeff, speed)

\* Mutant of update_acceleration: the net force is not divided by the mass.
update_acceleration_without_mass(throttle) ==
    RSub(throttle_force(throttle), drag_force)

\* self.acceleration = (throttle_force - drag_force) / self.mass
update_acceleration(throttle) ==
    RDiv(RSub(throttle_force(throttle), drag_force), mass)

\* Mutant of update_speed: the floor at 0 is missing.
update_speed_unclamped(acc, dt_used) == RAdd(speed, RMul(acc, dt_used))

\* self.speed += self.acceleration * dt; self.speed = max(0.0, self.speed)
update_speed(acc, dt_used) == RMax(Z(0), RAdd(speed, RMul(acc, dt_used)))

\* Mutant of update_position: integrates the speed before the step.
update_position_old_speed(new_speed, dt_used) ==
    RAdd(position, RMul(speed, dt_used))

\* self.position += self.speed * dt   (the speed after the step)
update_position(new_speed, dt_used) == RAdd(position, RMul(new_speed, dt_used))

\* Mutant of update: the throttle is used as given, without np.clip.
update_throttle_not_clipped(throttle, dt_arg) ==
    LET dt_used == IF dt_arg = None THEN dt ELSE dt_arg
        th == throttle
        acc == update_acceleration(th)
        spd == update_speed(acc, dt_used)
        pos == update_position(spd, dt_used)
    IN [position |-> pos, speed |-> spd, acceleration |-> acc, throttle |-> th]

\* The body of CarSimulation.update: the state it returns, which is also
\* the state it leaves in the object.
update(throttle, dt_arg) ==
    LET dt_used == IF dt_arg = None THEN dt ELSE dt_arg
        th == clip(throttle, Z(0), Z(100))
        acc == update_acceleration(th)
        spd == update_speed(acc, dt_used)
        pos == update_position(spd, dt_used)
    IN [position |-> pos, speed |-> spd, acceleration |-> acc, throttle |-> th]

\* The five appends of record_state on history h.
append_state(h, time, pos, spd, acc, throttle) ==
    [time |-> Append(h.time, time),
     position |-> Append(h.position, pos),
     speed |-> Append(h.speed, spd),
     acceleration |-> Append(h.acceleration, acc),
     throttle |-> Append(h.throttle, throttle)]

\* Mutant of record_state: the acceleration list is not appended to.
record_state_skips_acceleration(time, throttle) ==
    [time |-> Append(history.time, time),
     position |-> Append(history.position, position),
     speed |-> Append(history.speed, speed),
     acceleration |-> history.acceleration,
     throttle |-> Append(history.throttle, throttle)]

\* The body of CarSimulation.record_state: the history after the appends.
record_state(time, throttle) ==
    append_state(history, time, position, speed, acceleration, throttle)

\* CarSimulation.update(throttle, dt) as a call
Update ==
    \E throttle \in ThrottleArgs, dt_arg \in DtArgs :
        /\ steps < MaxSteps
        /\ LET state == update(throttle, dt_arg)
           IN /\ position' = state.position
              /\ speed' = state.speed
              /\ acceleration' = state.acceleration
              /\ ret' = state
        /\ steps' = steps + 1
        /\ last' = [op |-> "update", throttle |-> throttle, dt |-> dt_arg,
                    time |-> None]
        /\ UNCHANGED <<carParams, history, drv, mf, fuzzyVars>>

\* Mutant of Reset: the history is kept.
Reset_keeps_history ==
    /\ position' = Z(0)
    /\ speed' = Z(0)
    /\ acceleration' = Z(0)
    /\ ret' = None
    /\ last' = [op |-> "reset", throttle |-> None, dt |-> None, time |-> None]
    /\ UNCHANGED <<carParams, history, steps, drv, mf, fuzzyVars>>

\* CarSimulation.reset()
Reset ==
    /\ position' = Z(0)
    /\ speed' = Z(0)
    /\ acceleration' = Z(0)
    /\ history' = EmptyHistory
    /\ ret' = None
    /\ last' = [op |-> "reset", throttle |-> None, dt |-> None, time |-> None]
    /\ UNCHANGED <<carParams, steps, drv, mf, fuzzyVars>>

\* CarSimulation.record_state(time, throttle)
RecordState ==
    \E time \in TimeArgs, throttle \in RecordThrottleArgs :
        /\ Len(history.time) < MaxHist
        /\ history' = record_state(time, throttle)
        /\ ret' = None
        /\ last' = [op |-> "record_state", throttle |-> throttle,
                    dt |-> None, time |-> time]
        /\ UNCHANGED <<carParams, carState, steps, drv, mf, fuzzyVars>>

\* CarSimulation.get_state()
GetState ==
    /\ ret' = [position |-> position, speed |-> speed,
               acceleration |-> acceleration]
    /\ last' = [op |-> "get_state", throttle |-> None, dt |-> None,
                time |-> None]
    /\ UNCHANGED <<carParams, carState, history, steps, drv, mf, fuzzyVars>>

Next == Update \/ Reset \/ RecordState \/ GetState

Spec == Init /\ [][Next]_vars

(***************************************************************************)
(* Properties of CarSimulation, checked under Spec.                        *)
(***************************************************************************)
IsUpdateStep == last'.op = "update" /\ steps' = steps + 1

\* The dt the update step used: the argument, or self.dt when it is None.
DtUsed == IF last'.dt = None THEN dt ELSE last'.dt

\* C1: speed is >= 0 in every reachable state, whatever throttle and dt
\* the update calls were given.
C1_SpeedNonNegative == speed[1] >= 0 /\ speed[2] > 0

\* An update whose unclamped speed was negative: the speed before the step
\* is recovered from the acceleration, (force - acceleration*mass)/drag.
C1_Witness ==
    /\ last.op = "update"
    /\ speed = Z(0)
    /\ LET force == R(ret.throttle[1] * max_throttle[1],
                       ret.throttle[2] * 100 * max_throttle[2])
           before == RDiv(RSub(force,
                               RMul(acceleration, mass)), drag_coeff)
           used == IF last.dt = None THEN dt ELSE last.dt
       IN /\ RLt(Z(0), before)
          /\ RLt(RAdd(before, RMul(acceleration, used)), Z(0))

\* C2: one update computes the six reference steps in order: clamp the
\* throttle to [0,100], acceleration from the speed before the step, speed
\* floored at 0, position from the speed after the step, and returns the new
\* position, speed, acceleration and the clamped throttle.
C2_UpdateReference ==
    [][IsUpdateStep =>
        LET p == last'.throttle
            clamped == IF p[1] < 0 THEN Z(0)
                       ELSE IF p[1] > 100 * p[2] THEN Z(100) ELSE p
            drive == R(clamped[1] * max_throttle[1],
                       clamped[2] * 100 * max_throttle[2])
            drag == R(drag_coeff[1] * speed[1], drag_coeff[2] * speed[2])
            net == R(drive[1] * drag[2] - drag[1] * drive[2],
                     drive[2] * drag[2])
            a == R(net[1] * mass[2], net[2] * mass[1])
            raw == R(speed[1] * a[2] * DtUsed[2] + a[1] * DtUsed[1] * speed[2],
                     speed[2] * a[2] * DtUsed[2])
            v == IF raw[1] < 0 THEN Z(0) ELSE raw
            x == R(position[1] * v[2] * DtUsed[2]
                     + v[1] * DtUsed[1] * position[2],
                   position[2] * v[2] * DtUsed[2])
        IN /\ acceleration' = a
           /\ speed' = v
           /\ position' = x
           /\ ret' = [position |-> x, speed |-> v, acceleration |-> a,
                      throttle |-> clamped]]_vars

\* A second update, from a moving car, whose throttle was clamped from above.
C2_Witness ==
    /\ last.op = "update"
    /\ steps >= 2
    /\ last.throttle = Z(130)
    /\ ret.throttle = Z(100)
    /\ RLt(Z(0), speed)
    /\ RLt(Z(0), position)
    /\ RLt(acceleration, <<max_throttle[1], mass[1]>>)

\* C4: from speed 0, an update with throttle 0 and dt > 0 leaves speed at 0,
\* acceleration at 0 and the position unchanged.
C4_RestStaysAtRest ==
    [][(IsUpdateStep /\ last'.throttle = Z(0) /\ speed = Z(0)
          /\ DtUsed[1] > 0)
        => speed' = Z(0) /\ acceleration' = Z(0) /\ position' = position]_vars

\* A later update with throttle 0 and self.dt that found the car at rest
\* (acceleration 0 with no drive force means the speed before was 0).
C4_Witness ==
    /\ last.op = "update"
    /\ steps >= 2
    /\ last.throttle = Z(0)
    /\ last.dt = None
    /\ speed = Z(0)
    /\ acceleration = Z(0)

\* C5: reset sets position, speed and acceleration to 0, empties the five
\* history lists and leaves mass, drag_coeff, max_throttle and dt unchanged.
C5_ResetEffect ==
    [][last'.op = "reset" =>
        /\ position' = Z(0) /\ speed' = Z(0) /\ acceleration' = Z(0)
        /\ \A k \in {"time", "position", "speed", "acceleration", "throttle"} :
              history'[k] = <<>>
        /\ DOMAIN history' =
              {"time", "position", "speed", "acceleration", "throttle"}
        /\ mass' = mass /\ drag_coeff' = drag_coeff
        /\ max_throttle' = max_throttle /\ dt' = dt]_vars

\* The state right after a reset that followed at least one update.
C5_Witness ==
    /\ last.op = "reset"
    /\ steps >= 1
    /\ carState = <<Z(0), Z(0), Z(0)>>
    /\ history = EmptyHistory

\* C6: an update called with dt <= 0 is rejected and changes neither
\* position, speed nor acceleration.
C6_NonPositiveDtRejected ==
    [][(IsUpdateStep /\ DtUsed[1] <= 0) => UNCHANGED carState]_vars

HoldInit ==
    /\ CarInit(MassValues, HoldDts)
    /\ \E p \in HoldThrottles :
          drv = [pc |-> "loop", throttle_value |-> p, current_time |-> Z(0),
                 duration |-> RMul(dt, Z(MaxHoldSteps - 1))]
    /\ mf = NoMf
    /\ FuzzyIdle

\* One iteration of `while current_time <= duration`:
\* car.update(throttle_value); car.record_state(current_time,
\* throttle_value); current_time += car.dt
ConstantThrottleStep ==
    /\ drv.pc = "loop"
    /\ RLe(drv.current_time, drv.duration)
    /\ LET state == update(drv.throttle_value, None)
       IN /\ position' = state.position
          /\ speed' = state.speed
          /\ acceleration' = state.acceleration
          /\ ret' = None
          /\ history' = append_state(history, drv.current_time,
                                     state.position, state.speed,
                                     state.acceleration, drv.throttle_value)
    /\ steps' = steps + 1
    /\ last' = [op |-> "record_state", throttle |-> drv.throttle_value,
                dt |-> None, time |-> drv.current_time]
    /\ drv' = [drv EXCEPT !.current_time = RAdd(drv.current_time, dt)]
    /\ UNCHANGED <<carParams, mf, fuzzyVars>>

\* The loop exit: final_state = car.get_state()
ConstantThrottleExit ==
    /\ drv.pc = "loop"
    /\ ~RLe(drv.current_time, drv.duration)
    /\ drv' = [drv EXCEPT !.pc = "done"]
    /\ ret' = [position |-> position, speed |-> speed,
               acceleration |-> acceleration]
    /\ last' = [op |-> "get_state", throttle |-> None, dt |-> None,
                time |-> None]
    /\ UNCHANGED <<carParams, carState, history, steps, mf, fuzzyVars>>

HoldNext == ConstantThrottleStep \/ ConstantThrottleExit

SpecHold == HoldInit /\ [][HoldNext]_vars

\* v_max_theory = (throttle_value/100.0) * car.max_throttle / car.drag_coeff
v_max_theory ==
    RDiv(RMul(RDiv(drv.throttle_value, Z(100)), max_throttle), drag_coeff)

Eps == <<1, 10>>

\* dt * drag_coeff / mass, the fraction of the speed gap one step removes.
StepGain == RDiv(RMul(dt, drag_coeff), mass)

SpeedGap == RAbs(RSub(speed, v_max_theory))

\* C3 as stated: with the throttle held at p and update repeated with any
\* fixed dt > 0, the speed ends within Eps of (p/100*max_throttle)/drag_coeff,
\* whatever the mass.
C3_ConvergesForAnyDt == drv.pc = "done" => RLe(SpeedGap, Eps)

\* C3 amended: the same, for a fixed dt with 0 < dt*drag_coeff/mass < 2.
C3_ConvergesForStableDt ==
    (drv.pc = "done" /\ RLt(Z(0), StepGain) /\ RLt(StepGain, Z(2)))
        => RLe(SpeedGap, Eps)

\* The spec's example (mass 1000, drag 50, force 5000, 50 %) at the end of
\* the loop: within Eps of 50 m/s, reached from below without hitting it.
C3_Witness ==
    /\ drv.pc = "done"
    /\ mass = Z(1000)
    /\ drv.throttle_value = Z(50)
    /\ v_max_theory = Z(50)
    /\ StepGain = <<1, 2>>
    /\ RLt(speed, Z(50))
    /\ RLe(SpeedGap, Eps)
    /\ Len(history.speed) = MaxHoldSteps

(***************************************************************************)
(* Membership functions of laby/lab1/zad1.py.  The control points are      *)
(* drawn from 0..MaxPt in every order a <= b <= c (<= d), the degenerate   *)
(* ones included, and x from the half-integers of [-1, MaxPt + 1].         *)
(***************************************************************************)
Points == {Z(i) : i \in 0..MaxPt}
XValues == {R(n, 2) : n \in (-2)..(2 * MaxPt + 2)}

\* Mutant of triangle: the falling slope is divided by the whole base.
triangle_wrong_fall(x, a, b, c) ==
    IF RLe(x, a) \/ RLe(c, x) THEN Z(0)
    ELSE IF RLt(a, x) /\ RLe(x, b) THEN RDiv(RSub(x, a), RSub(b, a))
    ELSE IF RLt(b, x) /\ RLt(x, c) THEN RDiv(RSub(c, x), RSub(c, a))
    ELSE Z(0)

\* Mutant of triangle: the left guard x <= a is missing and the rising
\* branch takes every x <= b.
triangle_no_left_guard(x, a, b, c) ==
    IF RLe(c, x) THEN Z(0)
    ELSE IF RLe(x, b) THEN RDiv(RSub(x, a), RSub(b, a))
    ELSE IF RLt(b, x) /\ RLt(x, c) THEN RDiv(RSub(c, x), RSub(c, b))
    ELSE Z(0)

\* Mutant of triangle: the textbook variant with closed intervals.
triangle_closed(x, a, b, c) ==
    IF RLt(x, a) \/ RLt(c, x) THEN Z(0)
    ELSE IF RLe(a, x) /\ RLe(x, b) THEN RDiv(RSub(x, a), RSub(b, a))
    ELSE IF RLt(b, x) /\ RLe(x, c) THEN RDiv(RSub(c, x), RSub(c, b))
    ELSE Z(0)

\* def triangle(x, a, b, c)
triangle(x, a, b, c) ==
    IF RLe(x, a) \/ RLe(c, x) THEN Z(0)
    ELSE IF RLt(a, x) /\ RLe(x, b) THEN RDiv(RSub(x, a), RSub(b, a))
    ELSE IF RLt(b, x) /\ RLt(x, c) THEN RDiv(RSub(c, x), RSub(c, b))
    ELSE Z(0)

\* def trapezoid(x, a, b, c, d)
trapezoid(x, a, b, c, d) ==
    IF RLe(x, a) \/ RLe(d, x) THEN Z(0)
    ELSE IF RLe(b, x) /\ RLe(x, c) THEN Z(1)
    ELSE IF RLt(a, x) /\ RLt(x, b) THEN RDiv(RSub(x, a), RSub(b, a))
    ELSE IF RLt(c, x) /\ RLt(x, d) THEN RDiv(RSub(d, x), RSub(d, c))
    ELSE Z(0)

\* The conditions of triangle's if / elif chain that x satisfies, numbered
\* in the order of the code; the final else is taken when there is none.
triangle_branches(x, a, b, c) ==
    {i \in 1..3 :
        \/ i = 1 /\ (RLe(x, a) \/ RLe(c, x))
        \/ i = 2 /\ RLt(a, x) /\ RLe(x, b)
        \/ i = 3 /\ RLt(b, x) /\ RLt(x, c)}

\* The conditions of trapezoid's if / elif chain that x satisfies.
trapezoid_branches(x, a, b, c, d) ==
    {i \in 1..4 :
        \/ i = 1 /\ (RLe(x, a) \/ RLe(d, x))
        \/ i = 2 /\ RLe(b, x) /\ RLe(x, c)
        \/ i = 3 /\ RLt(a, x) /\ RLt(x, b)
        \/ i = 4 /\ RLt(c, x) /\ RLt(x, d)}

\* A call about to be made: triangle(x, a, b, c) or trapezoid(x, a, b, c, d).
MfInit ==
    /\ CarInit({Z(DefaultMass)}, {Z(10)})
    /\ drv = NoDriver
    /\ FuzzyIdle
    /\ \E x \in XValues, a \in Points, b \in Points, c \in Points,
          d \in Points :
          /\ RLe(a, b) /\ RLe(b, c) /\ RLe(c, d)
          /\ \/ mf = [fn |-> "triangle", x |-> x, a |-> a, b |-> b, c |-> c,
                      d |-> None, out |-> None]
             \/ mf = [fn |-> "trapezoid", x |-> x, a |-> a, b |-> b, c |-> c,
                      d |-> d, out |-> None]

\* result = triangle(x, a, b, c)
EvalTriangle ==
    /\ mf.fn = "triangle"
    /\ mf.out = None
    /\ mf' = [mf EXCEPT !.out = triangle(mf.x, mf.a, mf.b, mf.c)]
    /\ UNCHANGED <<carParams, carState, history, ret, last, steps, drv, fuzzyVars>>

\* result = trapezoid(x, a, b, c, d)
EvalTrapezoid ==
    /\ mf.fn = "trapezoid"
    /\ mf.out = None
    /\ mf' = [mf EXCEPT !.out = trapezoid(mf.x, mf.a, mf.b, mf.c, mf.d)]
    /\ UNCHANGED <<carParams, carState, history, ret, last, steps, drv, fuzzyVars>>

MfNext == EvalTriangle \/ EvalTrapezoid

SpecMF == MfInit /\ [][MfNext]_vars

\* The degree of x under the control points of the current call.
Degree(x) ==
    IF mf.fn = "triangle" THEN triangle(x, mf.a, mf.b, mf.c)
    ELSE trapezoid(x, mf.a, mf.b, mf.c, mf.d)

\* The right foot of the shape: c for a triangle, d for a trapezoid.
RightFoot == IF mf.fn = "triangle" THEN mf.c ELSE mf.d

\* The start of the falling slope: b for a triangle, c for a trapezoid.
FallStart == IF mf.fn = "triangle" THEN mf.b ELSE mf.c

\* C8: triangle and trapezoid are total with a result in [0,1] for every x
\* and every a <= b <= c (<= d), the degenerate cases included: no division
\* by zero.
C8_TotalInUnitInterval ==
    mf.out # None =>
        /\ mf.out # ZeroDivisionError
        /\ mf.out[2] > 0
        /\ 0 <= mf.out[1] /\ mf.out[1] <= mf.out[2]

\* Evaluations at the collapsed left slope (x = a = b < c) and strictly
\* inside a slope next to a collapsed one.
C8_Witness ==
    /\ mf.out # None
    /\ mf.a = mf.b
    /\ RLt(mf.b, mf.c)
    /\ \/ mf.x = mf.a
       \/ mf.fn = "triangle" /\ RLt(Z(0), mf.out) /\ RLt(mf.out, Z(1))

\* C9: the degree is exactly 1 at the peak: triangle(b,a,b,c) = 1 and
\* trapezoid(x,a,b,c,d) = 1 for b <= x <= c, for every a <= b <= c (<= d).
C9_PeakIsOne ==
    (/\ mf.out # None
     /\ \/ mf.fn = "triangle" /\ mf.x = mf.b
        \/ mf.fn = "trapezoid" /\ RLe(mf.b, mf.x) /\ RLe(mf.x, mf.c))
        => mf.out = Z(1)

\* C10: the degree is non-decreasing on [a,b] and non-increasing on [c,d]
\* (trapezoid) or [b,c] (triangle), for every valid order of the points.
C10_Monotone ==
    mf.out # None =>
        \A x2 \in XValues :
            /\ (RLe(mf.a, mf.x) /\ RLe(mf.x, x2) /\ RLe(x2, mf.b))
                  => RLe(mf.out, Degree(x2))
            /\ (RLe(FallStart, mf.x) /\ RLe(mf.x, x2) /\ RLe(x2, RightFoot))
                  => RLe(Degree(x2), mf.out)

\* The branch conditions that hold for the x of the current call.
Branches ==
    IF mf.fn = "triangle" THEN triangle_branches(mf.x, mf.a, mf.b, mf.c)
    ELSE trapezoid_branches(mf.x, mf.a, mf.b, mf.c, mf.d)

\* The values at x of the stated pieces whose closed interval contains x:
\* 0 outside, (x-a)/(b-a) on [a,b], 1 on the plateau, (foot-x)/(foot-top) on
\* the falling slope.  At a breakpoint two pieces meet; the function is
\* continuous there when they give one value.
PieceValues ==
    LET x == mf.x
        rise == IF RLt(mf.a, mf.b) /\ RLe(mf.a, x) /\ RLe(x, mf.b)
                THEN {R(x[1] * mf.a[2] - mf.a[1] * x[2],
                        x[2] * (mf.b[1] - mf.a[1]))}
                ELSE {}
        fall == IF RLt(FallStart, RightFoot) /\ RLe(FallStart, x)
                     /\ RLe(x, RightFoot)
                THEN {R(RightFoot[1] * x[2] - x[1],
                        x[2] * (RightFoot[1] - FallStart[1]))}
                ELSE {}
        top == IF mf.fn = "trapezoid" /\ RLe(mf.b, x) /\ RLe(x, mf.c)
               THEN {Z(1)} ELSE {}
        zero == IF RLe(x, mf.a) \/ RLe(RightFoot, x) THEN {Z(0)} ELSE {}
    IN rise \cup fall \cup top \cup zero

\* The slopes are not collapsed: a < b < c, or a < b <= c < d.
StrictPoints == RLt(mf.a, mf.b) /\ RLt(FallStart, RightFoot)

\* C11 as stated: for every x and every valid order of the control points
\* exactly one branch condition applies (so the final else is never taken)
\* and the value equals every piece that meets at x (continuity).
C11_ExactCoverContinuous ==
    mf.out # None => Cardinality(Branches) = 1 /\ PieceValues = {mf.out}

\* C11 amended: the final else is never taken for any valid order; exactly
\* one branch applies and the function is continuous when no slope is
\* collapsed (a < b < c, or a < b <= c < d).
C11_ExactCoverContinuousStrict ==
    mf.out # None =>
        /\ Branches # {}
        /\ StrictPoints =>
              Cardinality(Branches) = 1 /\ PieceValues = {mf.out}

\* The peak of a proper triangle, where the rising and the falling piece
\* meet, and an interior point of a falling slope.
C11_Witness ==
    /\ mf.out # None
    /\ mf.fn = "triangle"
    /\ StrictPoints
    /\ \/ mf.x = mf.b /\ mf.out = Z(1)
       \/ RLt(mf.b, mf.x) /\ RLt(mf.x, mf.c) /\ RLt(Z(0), mf.out)

\* C12: outside the support the degree is 0: triangle(x,a,b,c) = 0 for
\* x < a or x > c, trapezoid(x,a,b,c,d) = 0 for x < a or x > d.
C12_ZeroOutsideSupport ==
    (mf.out # None /\ (RLt(mf.x, mf.a) \/ RLt(RightFoot, mf.x)))
        => mf.out = Z(0)

\* An evaluation left of the support of a shape with a rising slope.
C12_Witness ==
    /\ mf.out = Z(0)
    /\ RLt(mf.x, mf.a)
    /\ RLt(mf.a, mf.b)

(***************************************************************************)
(* scikit-fuzzy as the repository calls it: membership generators,         *)
(* fuzzification, rule firing (AND = min, OR = max), clipping of the       *)
(* consequent terms, accumulation by maximum and centroid defuzzification  *)
(* over the samples of the output universe.                                *)
(***************************************************************************)
\* np.arange(start, stop, step): ceil((stop - start) / step) samples.
arange(start, stop, step) ==
    LET q == RDiv(RSub(stop, start), step)
        n == -((-q[1]) \div q[2])
    IN [i \in 1..n |-> RAdd(start, RMul(Z(i - 1), step))]

\* fuzz.trimf(universe, [a, b, c]) at the point x
trimf(x, a, b, c) ==
    IF x = b THEN Z(1)
    ELSE IF a # b /\ RLt(a, x) /\ RLt(x, b) THEN RDiv(RSub(x, a), RSub(b, a))
    ELSE IF b # c /\ RLt(b, x) /\ RLt(x, c) THEN RDiv(RSub(c, x), RSub(c, b))
    ELSE Z(0)

\* fuzz.trapmf(universe, [a, b, c, d]) at the point x
trapmf(x, a, b, c, d) ==
    IF RLt(x, a) \/ RLt(d, x) THEN Z(0)
    ELSE IF RLe(c, x) THEN trimf(x, c, c, d)
    ELSE IF RLe(x, b) THEN trimf(x, a, b, b)
    ELSE Z(1)

\* A term is <<"trimf", <<a, b, c>>>> or <<"trapmf", <<a, b, c, d>>>>.
term_mf(term, x) ==
    IF term[1] = "trimf" THEN trimf(x, term[2][1], term[2][2], term[2][3])
    ELSE trapmf(x, term[2][1], term[2][2], term[2][3], term[2][4])

\* Fuzzification of the crisp value x of a variable: the degree of one of
\* its terms, 0 outside the universe.
interp_membership(variable, name, x) ==
    LET u == variable.universe
    IN IF RLt(x, u[1]) \/ RLt(u[Len(u)], x) THEN Z(0)
       ELSE term_mf(variable.terms[name], x)

\* Firing strength of an antecedent: <<"is", variable, term>>,
\* <<"and", left, right>> (min) or <<"or", left, right>> (max).
RECURSIVE firing(_, _, _)
firing(variables, antecedent, input) ==
    IF antecedent[1] = "is"
    THEN interp_membership(variables[antecedent[2]], antecedent[3],
                           input[antecedent[2]])
    ELSE IF antecedent[1] = "and"
    THEN RMin(firing(variables, antecedent[2], input),
              firing(variables, antecedent[3], input))
    ELSE RMax(firing(variables, antecedent[2], input),
              firing(variables, antecedent[3], input))

\* An accumulation that keeps the firing strength of the last rule assigning
\* the term.
term_activation_last_rule_wins(variables, rules, input, name, lo, hi) ==
    LET assigning == {k \in lo..hi : rules[k].consequent = name}
    IN IF assigning = {} THEN Z(0)
       ELSE firing(variables,
                   rules[CHOOSE k \in assigning :
                            \A j \in assigning : j <= k].antecedent,
                   input)

\* Activation of an output term by the rules lo..hi: the firing strengths of
\* the rules that assign it, accumulated in rule order by maximum (the range
\* is folded by halves).
RECURSIVE term_activation(_, _, _, _, _, _)
term_activation(variables, rules, input, name, lo, hi) ==
    IF lo > hi THEN Z(0)
    ELSE IF lo = hi
    THEN IF rules[lo].consequent = name
         THEN firing(variables, rules[lo].antecedent, input)
         ELSE Z(0)
    ELSE LET mid == (lo + hi) \div 2
         IN RMax(term_activation(variables, rules, input, name, lo, mid),
                 term_activation(variables, rules, input, name, mid + 1, hi))

\* The largest element of a non-empty finite set of rationals.
RMaxOf(S) == CHOOSE m \in S : \A y \in S : RLe(y, m)

\* The aggregated output set at the sample x: each term clipped at its
\* activation, combined by maximum (a term of activation 0 adds nothing).
aggregated(output, activation, x) ==
    LET fired == {name \in DOMAIN output.terms : activation[name] # Z(0)}
    IN IF fired = {} THEN Z(0)
       ELSE RMaxOf({RMin(activation[name], term_mf(output.terms[name], x)) :
                      name \in fired})

\* sum of xs[i] * mu[i] for i in lo..hi, by halves.
RECURSIVE weighted_sum(_, _, _, _)
weighted_sum(xs, mu, lo, hi) ==
    IF lo > hi THEN Z(0)
    ELSE IF lo = hi THEN RMul(xs[lo], mu[lo])
    ELSE LET mid == (lo + hi) \div 2
         IN RAdd(weighted_sum(xs, mu, lo, mid),
                 weighted_sum(xs, mu, mid + 1, hi))

\* Centroid over the samples: sum(x * mu) / sum(mu).  With a total of 0 the
\* library has no crisp output and raises.
centroid(universe, mu) ==
    LET ones == [i \in DOMAIN universe |-> Z(1)]
        total == weighted_sum(ones, mu, 1, Len(universe))
    IN IF total = Z(0) THEN ValueError
       ELSE RDiv(weighted_sum(universe, mu, 1, Len(universe)), total)

\* The function f as a table: comparing it makes TLC evaluate it here, once
\* and at every point of its domain, instead of at each later application.
Tabulated(f) == f = f

\* The activations of the output variable's terms.
activations(variables, rules, out, input) ==
    [name \in DOMAIN variables[out].terms |->
        term_activation(variables, rules, input, name, 1, Len(rules))]

\* The aggregated membership of the output variable over its universe.
aggregate(variables, rules, out, input) ==
    LET output == variables[out]
        activation == activations(variables, rules, out, input)
        mu == [i \in DOMAIN output.universe |->
                 aggregated(output, activation, output.universe[i])]
    IN IF Tabulated(activation) /\ Tabulated(mu) THEN mu ELSE <<>>

\* ControlSystemSimulation.compute() for the output variable out: every
\* input must hold a value.
compute(variables, rules, out, input) ==
    IF \E name \in DOMAIN input : input[name] = None THEN ValueError
    ELSE LET mu == aggregate(variables, rules, out, input)
         IN IF Tabulated(mu) THEN centroid(variables[out].universe, mu)
            ELSE ValueError

(***************************************************************************)
(* FuzzyThrottleController (src/core_fuzzy/fuzzy_controller.py).           *)
(***************************************************************************)
Tri(a, b, c) == <<"trimf", <<Z(a), Z(b), Z(c)>>>>
Trap(a, b, c, d) == <<"trapmf", <<Z(a), Z(b), Z(c), Z(d)>>>>

\* _define_fuzzy_variables and _define_membership_functions
throttle_variables ==
    [speed_error |->
        [universe |-> arange(Z(-30), Z(31), Z(1)),
         terms |-> [negative_large |-> Trap(-30, -30, -20, -10),
                    negative_small |-> Tri(-15, -5, 0),
                    zero |-> Tri(-5, 0, 5),
                    positive_small |-> Tri(0, 5, 15),
                    positive_large |-> Trap(10, 20, 30, 30)]],
     acceleration |->
        [universe |-> arange(Z(-10), Z(11), Z(1)),
         terms |-> [negative |-> Trap(-10, -10, -5, 0),
                    zero |-> Tri(-3, 0, 3),
                    positive |-> Trap(0, 5, 10, 10)]],
     throttle |->
        [universe |-> arange(Z(0), Z(101), Z(1)),
         terms |-> [very_low |-> Trap(0, 0, 10, 20),
                    low |-> Tri(10, 25, 40),
                    medium |-> Tri(30, 50, 70),
                    high |-> Tri(60, 75, 90),
                    very_high |-> Trap(80, 90, 100, 100)]]]

Is(variable, name) == <<"is", variable, name>>
And(left, right) == <<"and", left, right>>
Or(left, right) == <<"or", left, right>>
Rule(antecedent, consequent) ==
    [antecedent |-> antecedent, consequent |-> consequent]

\* Mutant of throttle_rules: the three rules of a zero speed error are
\* missing.
throttle_rules_without_zero_error ==
    << Rule(Is("speed_error", "negative_large"), "very_low"),
       Rule(And(Is("speed_error", "negative_small"),
                Is("acceleration", "negative")), "very_low"),
       Rule(And(Is("speed_error", "negative_small"),
                Is("acceleration", "zero")), "low"),
       Rule(And(Is("speed_error", "negative_small"),
                Is("acceleration", "positive")), "medium"),
       Rule(And(Is("speed_error", "positive_small"),
                Is("acceleration", "negative")), "medium"),
       Rule(And(Is("speed_error", "positive_small"),
                Is("acceleration", "zero")), "high"),
       Rule(And(Is("speed_error", "positive_small"),
                Is("acceleration", "positive")), "medium"),
       Rule(And(Is("speed_error", "positive_large"),
                Is("acceleration", "negative")), "very_high"),
       Rule(And(Is("speed_error", "positive_large"),
                Or(Is("acceleration", "zero"),
                   Is("acceleration", "positive"))), "very_high") >>

\* _define_rules: self.rules
throttle_rules ==
    << Rule(Is("speed_error", "negative_large"), "very_low"),
       Rule(And(Is("speed_error", "negative_small"),
                Is("acceleration", "negative")), "very_low"),
       Rule(And(Is("speed_error", "negative_small"),
                Is("acceleration", "zero")), "low"),
       Rule(And(Is("speed_error", "negative_small"),
                Is("acceleration", "positive")), "medium"),
       Rule(And(Is("speed_error", "zero"),
                Is("acceleration", "negative")), "low"),
       Rule(And(Is("speed_error", "zero"),
                Is("acceleration", "zero")), "medium"),
       Rule(And(Is("speed_error", "zero"),
                Is("acceleration", "positive")), "medium"),
       Rule(And(Is("speed_error", "positive_small"),
                Is("acceleration", "negative")), "medium"),
       Rule(And(Is("speed_error", "positive_small"),
                Is("acceleration", "zero")), "high"),
       Rule(And(Is("speed_error", "positive_small"),
                Is("acceleration", "positive")), "medium"),
       Rule(And(Is("speed_error", "positive_large"),
                Is("acceleration", "negative")), "very_high"),
       Rule(And(Is("speed_error", "positive_large"),
                Or(Is("acceleration", "zero"),
                   Is("acceleration", "positive"))), "very_high") >>

\* _create_control_system: self.simulator, no input set and no output yet.
create_control_system == NoSimulator

\* compute_throttle without the np.clip of speed_error.
compute_throttle_no_speed_clip(sim, rules, speed_error, accel) ==
    LET se == speed_error
        acc == clip(accel, Z(-10), Z(10))
        set == [sim EXCEPT !.input = [speed_error |-> se,
                                      acceleration |-> acc]]
        out == compute(throttle_variables, rules, "throttle", set.input)
        done == IF out = ValueError THEN set
                ELSE [set EXCEPT !.output.throttle = out]
    IN [simulator |-> done,
        result |-> IF out = ValueError THEN out ELSE done.output.throttle]

\* compute_throttle without the np.clip of acceleration.
compute_throttle_no_acceleration_clip(sim, rules, speed_error, accel) ==
    LET se == clip(speed_error, Z(-30), Z(30))
        acc == accel
        set == [sim EXCEPT !.input = [speed_error |-> se,
                                      acceleration |-> acc]]
        out == compute(throttle_variables, rules, "throttle", set.input)
        done == IF out = ValueError THEN set
                ELSE [set EXCEPT !.output.throttle = out]
    IN [simulator |-> done,
        result |-> IF out = ValueError THEN out ELSE done.output.throttle]

\* compute_throttle that computes only while the simulator holds no output,
\* and returns the output it holds.
compute_throttle_cached_output(sim, rules, speed_error, accel) ==
    LET se == clip(speed_error, Z(-30), Z(30))
        acc == clip(accel, Z(-10), Z(10))
        set == [sim EXCEPT !.input = [speed_error |-> se,
                                      acceleration |-> acc]]
        out == compute(throttle_variables, rules, "throttle", set.input)
        done == IF out = ValueError \/ sim.output.throttle # None THEN set
                ELSE [set EXCEPT !.output.throttle = out]
    IN [simulator |-> done,
        result |-> IF out = ValueError THEN out ELSE done.output.throttle]

\* compute_throttle(speed_error, acceleration) on the simulator sim: clip
\* both arguments, store them as the simulator's inputs, compute, and read
\* the throttle output back.  A failing compute() leaves the output as it
\* was and the call raises.  (The simulator's own clipping of inputs to the
\* universe changes nothing after np.clip.)
compute_throttle(sim, rules, speed_error, accel) ==
    LET se == clip(speed_error, Z(-30), Z(30))
        acc == clip(accel, Z(-10), Z(10))
        set == [sim EXCEPT !.input = [speed_error |-> se,
                                      acceleration |-> acc]]
        out == compute(throttle_variables, rules, "throttle", set.input)
        done == IF out = ValueError THEN set
                ELSE [set EXCEPT !.output.throttle = out]
    IN [simulator |-> done,
        result |-> IF out = ValueError THEN out ELSE done.output.throttle]

(***************************************************************************)
(* Calls of compute_throttle on one controller, one after the other.       *)
(***************************************************************************)
MaxCalls == 3

SpeedErrorArgs == {Z(-40), Z(-12), Z(-10), Z(0), R(15, 2), Z(10), Z(40)}
AccelerationArgs == {Z(-15), Z(-3), Z(0), Z(4), Z(12)}

\* controller = FuzzyThrottleController()
CtlInit ==
    /\ CarInit({Z(DefaultMass)}, {Z(10)})
    /\ drv = NoDriver
    /\ mf = NoMf
    /\ simulator = create_control_system
    /\ rule_base = throttle_rules
    /\ callers = <<>>
    /\ brake = NoBrake
    /\ script = NoScript
    /\ app = NoApp

\* throttle = controller.compute_throttle(speed_error, acceleration)
ComputeThrottle ==
    /\ steps < MaxCalls
    /\ \E speed_error \in SpeedErrorArgs, acc \in AccelerationArgs :
          LET call == compute_throttle(simulator, rule_base, speed_error, acc)
          IN /\ simulator' = call.simulator
             /\ callers' = <<[pc |-> "returned",
                              speed_error |-> speed_error,
                              acceleration |-> acc,
                              result |-> call.result]>>
    /\ steps' = steps + 1
    /\ UNCHANGED <<carParams, carState, history, ret, last, drv, mf,
                   rule_base, brake,
                   script, app>>

CtlNext == ComputeThrottle

SpecCtl == CtlInit /\ [][CtlNext]_vars

\* The call that has just returned.
Returned == callers # <<>> /\ callers[1].pc = "returned"

\* C13: compute_throttle(speed_error, acceleration) returns what
\* compute_throttle(clip(speed_error, -30, 30), clip(acceleration, -10, 10))
\* returns: the value of the call made equals the value of a call with the
\* clamped arguments.
C13_ClampedArgumentsSameThrottle ==
    Returned =>
        callers[1].result =
            compute_throttle(simulator, rule_base,
                             clip(callers[1].speed_error, Z(-30), Z(30)),
                             clip(callers[1].acceleration, Z(-10), Z(10))
                            ).result

\* A call with both arguments outside their universes has returned a value.
C13_Witness ==
    /\ Returned
    /\ RLt(Z(30), callers[1].speed_error)
    /\ RLt(callers[1].acceleration, Z(-10))
    /\ callers[1].result # ValueError

\* C14: every call of compute_throttle returns a throttle in [0, 100], so
\* the np.clip(throttle, 0, 100) of CarSimulation.update leaves it as it is.
C14_ThrottleInUniverse ==
    Returned =>
        /\ callers[1].result # ValueError
        /\ RLe(Z(0), callers[1].result)
        /\ RLe(callers[1].result, Z(100))
        /\ clip(callers[1].result, Z(0), Z(100)) = callers[1].result

\* A call at the top of the speed_error universe returns more than 90.
C14_Witness ==
    /\ Returned
    /\ callers[1].speed_error = Z(40)
    /\ callers[1].result # ValueError
    /\ RLt(Z(90), callers[1].result)

\* C18: whatever calls came before, a call returns what the first call on a
\* fresh controller returns for the same arguments.
C18_NoStateCarried ==
    Returned =>
        callers[1].result =
            compute_throttle(create_control_system, throttle_rules,
                             callers[1].speed_error,
                             callers[1].acceleration).result

\* A later call, made after the simulator held other inputs and an output.
C18_Witness ==
    /\ Returned
    /\ steps >= 2
    /\ callers[1].speed_error = Z(0)
    /\ callers[1].acceleration = Z(0)
    /\ callers[1].result = Z(50)

(***************************************************************************)
(* Two callers of compute_throttle on the same controller (two threads     *)
(* sharing one FuzzyThrottleController), interleaved statement by          *)
(* statement.  self.simulator is the one object both write and read.       *)
(***************************************************************************)
Callers == {1, 2}
ConcSpeedErrors == {Z(-25), Z(15)}
ConcAccelerations == {Z(-2), Z(4)}

IdleCaller == [pc |-> "idle", speed_error |-> None, acceleration |-> None,
               clipped |-> None, result |-> None]

ConcInit ==
    /\ CarInit({Z(DefaultMass)}, {Z(10)})
    /\ drv = NoDriver
    /\ mf = NoMf
    /\ simulator = create_control_system
    /\ rule_base = throttle_rules
    /\ callers = [i \in Callers |-> IdleCaller]
    /\ brake = NoBrake
    /\ script = NoScript
    /\ app = NoApp

\* Entry of compute_throttle and the two np.clip on its own arguments.
Call(i) ==
    /\ callers[i].pc = "idle"
    /\ \E speed_error \in ConcSpeedErrors, acc \in ConcAccelerations :
          callers' = [callers EXCEPT ![i] =
              [pc |-> "set_speed_error",
               speed_error |-> speed_error,
               acceleration |-> acc,
               clipped |-> [speed_error |-> clip(speed_error, Z(-30), Z(30)),
                            acceleration |-> clip(acc, Z(-10), Z(10))],
               result |-> None]]
    /\ UNCHANGED <<carParams, carState, history, ret, last, steps, drv, mf,
                   simulator, rule_base, brake,
                   script, app>>

\* self.simulator.input['speed_error'] = speed_error
SetSpeedError(i) ==
    /\ callers[i].pc = "set_speed_error"
    /\ simulator' = [simulator EXCEPT !.input.speed_error =
                                          callers[i].clipped.speed_error]
    /\ callers' = [callers EXCEPT ![i].pc = "set_acceleration"]
    /\ UNCHANGED <<carParams, carState, history, ret, last, steps, drv, mf,
                   rule_base, brake,
                   script, app>>

\* self.simulator.input['acceleration'] = acceleration
SetAcceleration(i) ==
    /\ callers[i].pc = "set_acceleration"
    /\ simulator' = [simulator EXCEPT !.input.acceleration =
                                          callers[i].clipped.acceleration]
    /\ callers' = [callers EXCEPT ![i].pc = "compute"]
    /\ UNCHANGED <<carParams, carState, history, ret, last, steps, drv, mf,
                   rule_base, brake,
                   script, app>>

\* self.simulator.compute()
Compute(i) ==
    /\ callers[i].pc = "compute"
    /\ LET out == compute(throttle_variables, rule_base, "throttle",
                          simulator.input)
       IN IF out = ValueError
          THEN /\ callers' = [callers EXCEPT ![i].pc = "returned",
                                             ![i].result = out]
               /\ UNCHANGED simulator
          ELSE /\ callers' = [callers EXCEPT ![i].pc = "return"]
               /\ simulator' = [simulator EXCEPT !.output.throttle = out]
    /\ UNCHANGED <<carParams, carState, history, ret, last, steps, drv, mf,
                   rule_base, brake,
                   script, app>>

\* return float(self.simulator.output['throttle'])
Return(i) ==
    /\ callers[i].pc = "return"
    /\ callers' = [callers EXCEPT ![i].pc = "returned",
                                  ![i].result = simulator.output.throttle]
    /\ UNCHANGED <<carParams, carState, history, ret, last, steps, drv, mf,
                   simulator, rule_base, brake,
                   script, app>>

ConcNext ==
    \E i \in Callers :
        \/ Call(i)
        \/ SetSpeedError(i)
        \/ SetAcceleration(i)
        \/ Compute(i)
        \/ Return(i)

SpecConc == ConcInit /\ [][ConcNext]_vars

\* C17: however two calls on the same controller interleave, each returns
\* the throttle of its own (speed_error, acceleration), the value the call
\* returns when it runs alone on a fresh controller.
C17_EachCallerItsOwnThrottle ==
    \A i \in Callers :
        callers[i].pc = "returned" =>
            callers[i].result =
                compute_throttle(create_control_system, throttle_rules,
                                 callers[i].speed_error,
                                 callers[i].acceleration).result

(***************************************************************************)
(* Controllers whose rule base holds the 12 rules in another order.        *)
(***************************************************************************)
\* The rules with those at places i and j exchanged.
Swapped(rules, i, j) ==
    [k \in 1..Len(rules) |->
        IF k = i THEN rules[j] ELSE IF k = j THEN rules[i] ELSE rules[k]]

Reversed(rules) == [k \in 1..Len(rules) |-> rules[Len(rules) + 1 - k]]

\* The order of _define_rules, its reverse, and every exchange of two rules.
RuleOrders ==
    {throttle_rules, Reversed(throttle_rules)} \cup
    {Swapped(throttle_rules, i, j) : i, j \in 1..Len(throttle_rules)}

\* Inputs at which several rules with the same consequent fire, with
\* different strengths.
RuleOrderInputs == {<<Z(-12), Z(-3)>>, <<Z(-2), Z(1)>>, <<R(15, 2), Z(4)>>}

RulesInit ==
    /\ CarInit({Z(DefaultMass)}, {Z(10)})
    /\ drv = NoDriver
    /\ mf = NoMf
    /\ simulator = create_control_system
    /\ rule_base \in RuleOrders
    /\ callers = <<>>
    /\ brake = NoBrake
    /\ script = NoScript
    /\ app = NoApp

\* The first compute_throttle call of a controller built on rule_base.
EvaluateOrder ==
    /\ callers = <<>>
    /\ \E input \in RuleOrderInputs :
          LET call == compute_throttle(simulator, rule_base,
                                       input[1], input[2])
          IN /\ simulator' = call.simulator
             /\ callers' = <<[pc |-> "returned",
                              speed_error |-> input[1],
                              acceleration |-> input[2],
                              result |-> call.result]>>
    /\ UNCHANGED <<carParams, carState, history, ret, last, steps, drv, mf,
                   rule_base, brake,
                   script, app>>

RulesNext == EvaluateOrder

SpecRules == RulesInit /\ [][RulesNext]_vars

braking_variables ==
    [distance |->
        [universe |-> arange(Z(0), Z(51), Z(1)),
         terms |-> [BLISKI |-> Trap(0, 0, 5, 15),
                    SREDNI |-> Tri(10, 20, 30),
                    DUZY |-> Trap(25, 35, 50, 50)]],
     braking |->
        [universe |-> arange(Z(0), R(61, 10), R(1, 10)),
         terms |-> [BRAK |-> <<"trapmf", <<Z(0), Z(0), R(1, 2), R(3, 2)>>>>,
                    LEKKIE |-> <<"trimf", <<Z(1), R(5, 2), Z(4)>>>>,
                    MOCNE |-> <<"trapmf", <<Z(3), R(9, 2), Z(6), Z(6)>>>>]]]

\* rule1 with LEKKIE as its consequent.
braking_rules_close_brakes_lightly ==
    << Rule(Is("distance", "BLISKI"), "LEKKIE"),
       Rule(Is("distance", "SREDNI"), "LEKKIE"),
       Rule(Is("distance", "DUZY"), "BRAK") >>

\* rule1, rule2, rule3
braking_rules ==
    << Rule(Is("distance", "BLISKI"), "MOCNE"),
       Rule(Is("distance", "SREDNI"), "LEKKIE"),
       Rule(Is("distance", "DUZY"), "BRAK") >>

\* The script sets distance = 12; here any sample of the distance universe.
Distances == {braking_variables.distance.universe[i] :
                 i \in DOMAIN braking_variables.distance.universe}

\* braking_sim = ctrl.ControlSystemSimulation(braking_ctrl)
BrakeInit ==
    /\ CarInit({Z(DefaultMass)}, {Z(10)})
    /\ drv = NoDriver
    /\ mf = NoMf
    /\ simulator = NoSimulator
    /\ callers = <<>>
    /\ rule_base = braking_rules
    /\ brake = [pc |-> "created", distance |-> None, braking |-> None]
    /\ script = NoScript
    /\ app = NoApp

\* braking_sim.input['distance'] = 12
SetDistance ==
    /\ brake.pc = "created"
    /\ \E d \in Distances :
          brake' = [brake EXCEPT !.pc = "input", !.distance = d]
    /\ UNCHANGED <<carParams, carState, history, ret, last, steps, drv, mf,
                   simulator, callers, rule_base,
                   script, app>>

\* braking_sim.compute()
BrakeCompute ==
    /\ brake.pc = "input"
    /\ brake' = [brake EXCEPT
                    !.pc = "computed",
                    !.braking = compute(braking_variables, rule_base,
                                        "braking",
                                        [distance |-> brake.distance])]
    /\ UNCHANGED <<carParams, carState, history, ret, last, steps, drv, mf,
                   simulator, callers, rule_base,
                   script, app>>

BrakeNext == SetDistance \/ BrakeCompute

SpecBrake == BrakeInit /\ [][BrakeNext]_vars

\* The centroid of one term of a variable over the variable's universe.
term_centroid(variable, name) ==
    LET mu == [i \in DOMAIN variable.universe |->
                 term_mf(variable.terms[name], variable.universe[i])]
    IN IF Tabulated(mu) THEN centroid(variable.universe, mu) ELSE ValueError

\* C20: for distance = 12 the braking output is strictly greater than 2.5,
\* the peak of LEKKIE, and close to the centroid of MOCNE: nearer to it than
\* to the centroid of LEKKIE or of BRAK.
C20_Distance12BrakesStrongly ==
    (brake.pc = "computed" /\ brake.distance = Z(12)) =>
        /\ brake.braking # ValueError
        /\ RLt(braking_variables.braking.terms["LEKKIE"][2][2], brake.braking)
        /\ \A other \in {"BRAK", "LEKKIE"} :
              RLt(RAbs(RSub(brake.braking,
                            term_centroid(braking_variables.braking,
                                          "MOCNE"))),
                  RAbs(RSub(brake.braking,
                            term_centroid(braking_variables.braking,
                                          other))))

\* The run of the script: distance = 12 and braking = 261/68 (about 3.84).
C20_Witness ==
    /\ brake.pc = "computed"
    /\ brake.distance = Z(12)
    /\ brake.braking = R(261, 68)

(***************************************************************************)
(* Construction of the rule bases: the statements that build linguistic    *)
(* variables, terms, rules and control systems in                          *)
(* laby/lab1/tipper-zad3.py, laby/lab2/hamowanie-zad4-6.py,                *)
(* laby/lab2/jakosc-owocow-zad7.py and FuzzyThrottleController.__init__,   *)
(* executed in the order of the source.                                    *)
(***************************************************************************)
\* ctrl.Antecedent(universe, name) / ctrl.Consequent(universe, name)
Variable(name, universe) == <<"variable", name, universe>>
\* variable[name] = fuzz.trimf(...) / fuzz.trapmf(...)
Term(variable, name, shape) == <<"term", variable, name, shape>>
\* ctrl.Rule(antecedent, variable[name])
RuleOf(antecedent, variable, name) == <<"rule", antecedent, <<variable, name>>>>
\* ctrl.ControlSystem([...]) and ctrl.ControlSystemSimulation(...)
System(n) == <<"system", n>>
Simulation == <<"simulation">>

TrapR(a, b, c, d) == <<"trapmf", <<a, b, c, d>>>>
TriR(a, b, c) == <<"trimf", <<a, b, c>>>>

\* laby/lab1/tipper-zad3.py, lines 7-48
tipper_script ==
    << Variable("quality", arange(Z(0), Z(11), Z(1))),
       Variable("food_quality", arange(Z(0), Z(10), Z(1))),
       Variable("tip", arange(Z(0), Z(26), Z(1))),
       Term("quality", "BAD", Trap(0, 0, 3, 5)),
       Term("quality", "MEDIUM", Tri(3, 5, 7)),
       Term("quality", "HIGH", Trap(6, 7, 10, 10)),
       Term("food_quality", "BAD", Trap(0, 0, 3, 5)),
       Term("food_quality", "MEDIUM", Tri(3, 5, 7)),
       Term("food_quality", "GOOD", Trap(6, 7, 10, 10)),
       RuleOf(And(Is("quality", "BAD"), Is("food_quality", "POOR")),
              "tip", "LOW"),
       RuleOf(And(Is("quality", "BAD"), Is("food_quality", "GOOD")),
              "tip", "LOW"),
       RuleOf(And(Is("quality", "BAD"), Is("food_quality", "EXCELLENT")),
              "tip", "MEDIUM"),
       RuleOf(And(Is("quality", "MEDIUM"), Is("food_quality", "POOR")),
              "tip", "LOW"),
       RuleOf(And(Is("quality", "MEDIUM"), Is("food_quality", "GOOD")),
              "tip", "MEDIUM"),
       RuleOf(And(Is("quality", "MEDIUM"), Is("food_quality", "EXCELLENT")),
              "tip", "HIGH"),
       RuleOf(And(Is("quality", "HIGH"), Is("food_quality", "POOR")),
              "tip", "MEDIUM"),
       RuleOf(And(Is("quality", "HIGH"), Is("food_quality", "GOOD")),
              "tip", "HIGH"),
       RuleOf(And(Is("quality", "HIGH"), Is("food_quality", "EXCELLENT")),
              "tip", "HIGH"),
       System(9),
       Simulation >>

\* laby/lab2/hamowanie-zad4-6.py, lines 10-95 (zad4, zad5, zad6)
braking_script ==
    << Variable("distance", braking_variables.distance.universe),
       Term("distance", "BLISKI", braking_variables.distance.terms.BLISKI),
       Term("distance", "SREDNI", braking_variables.distance.terms.SREDNI),
       Term("distance", "DUZY", braking_variables.distance.terms.DUZY),
       Variable("braking", braking_variables.braking.universe),
       Term("braking", "BRAK", braking_variables.braking.terms.BRAK),
       Term("braking", "LEKKIE", braking_variables.braking.terms.LEKKIE),
       Term("braking", "MOCNE", braking_variables.braking.terms.MOCNE),
       RuleOf(braking_rules[1].antecedent, "braking",
              braking_rules[1].consequent),
       RuleOf(braking_rules[2].antecedent, "braking",
              braking_rules[2].consequent),
       RuleOf(braking_rules[3].antecedent, "braking",
              braking_rules[3].consequent),
       System(3),
       Simulation,
       Variable("humidity", arange(Z(0), Z(101), Z(1))),
       Term("humidity", "SUCHA", Trap(0, 0, 20, 40)),
       Term("humidity", "MOKRA", Tri(30, 50, 70)),
       Term("humidity", "BARDZO_MOKRA", Trap(60, 80, 100, 100)),
       RuleOf(And(Is("distance", "BLISKI"), Is("humidity", "SUCHA")),
              "braking", "MOCNE"),
       RuleOf(And(Is("distance", "BLISKI"), Is("humidity", "MOKRA")),
              "braking", "MOCNE"),
       RuleOf(And(Is("distance", "BLISKI"), Is("humidity", "BARDZO_MOKRA")),
              "braking", "MOCNE"),
       RuleOf(And(Is("distance", "SREDNI"), Is("humidity", "SUCHA")),
              "braking", "LEKKIE"),
       RuleOf(And(Is("distance", "SREDNI"), Is("humidity", "MOKRA")),
              "braking", "LEKKIE"),
       RuleOf(And(Is("distance", "SREDNI"), Is("humidity", "BARDZO_MOKRA")),
              "braking", "MOCNE"),
       RuleOf(Is("distance", "DUZY"), "braking", "BRAK"),
       System(7),
       Simulation,
       Variable("ice", arange(Z(0), Z(101), Z(1))),
       Term("ice", "BRAK", Trap(0, 0, 10, 30)),
       Term("ice", "UMIARKOWANE", Tri(20, 50, 80)),
       Term("ice", "DUZE", Trap(70, 90, 100, 100)),
       RuleOf(And(Is("distance", "BLISKI"), Is("ice", "BRAK")),
              "braking", "MOCNE"),
       RuleOf(And(Is("distance", "BLISKI"), Is("ice", "UMIARKOWANE")),
              "braking", "MOCNE"),
       RuleOf(And(Is("distance", "BLISKI"), Is("ice", "DUZE")),
              "braking", "MOCNE"),
       RuleOf(And(Is("distance", "SREDNI"), Is("ice", "BRAK")),
              "braking", "LEKKIE"),
       RuleOf(And(Is("distance", "SREDNI"), Is("ice", "UMIARKOWANE")),
              "braking", "MOCNE"),
       RuleOf(And(Is("distance", "SREDNI"), Is("ice", "DUZE")),
              "braking", "MOCNE"),
       RuleOf(And(Is("distance", "DUZY"), Is("ice", "BRAK")),
              "braking", "BRAK"),
       RuleOf(And(Is("distance", "DUZY"), Is("ice", "UMIARKOWANE")),
              "braking", "LEKKIE"),
       RuleOf(And(Is("distance", "DUZY"), Is("ice", "DUZE")),
              "braking", "MOCNE"),
       System(9),
       Simulation >>

\* laby/lab2/jakosc-owocow-zad7.py, lines 9-41
fruit_script ==
    << Variable("size", arange(Z(0), R(101, 10), R(1, 10))),
       Term("size", "small", Trap(0, 0, 5, 10)),
       Term("size", "large", Trap(0, 5, 10, 10)),
       Variable("weight", arange(Z(0), Z(101), Z(1))),
       Term("weight", "small", Trap(0, 0, 50, 100)),
       Term("weight", "large", Trap(0, 50, 100, 100)),
       Variable("quality", arange(Z(0), R(101, 100), R(1, 100))),
       Term("quality", "bad", TrapR(Z(0), Z(0), R(1, 2), R(1, 2))),
       Term("quality", "medium", TriR(Z(0), R(1, 2), Z(1))),
       Term("quality", "good", TrapR(R(1, 2), R(1, 2), Z(1), Z(1))),
       RuleOf(And(Is("size", "small"), Is("weight", "small")),
              "quality", "bad"),
       RuleOf(And(Is("size", "small"), Is("weight", "large")),
              "quality", "medium"),
       RuleOf(And(Is("size", "large"), Is("weight", "small")),
              "quality", "medium"),
       RuleOf(And(Is("size", "large"), Is("weight", "large")),
              "quality", "good"),
       System(4),
       Simulation >>

\* FuzzyThrottleController.__init__: _define_fuzzy_variables,
\* _define_membership_functions, _define_rules, _create_control_system
controller_script ==
    << Variable("speed_error", throttle_variables.speed_error.universe),
       Variable("acceleration", throttle_variables.acceleration.universe),
       Variable("throttle", throttle_variables.throttle.universe),
       Term("speed_error", "negative_large",
            throttle_variables.speed_error.terms.negative_large),
       Term("speed_error", "negative_small",
            throttle_variables.speed_error.terms.negative_small),
       Term("speed_error", "zero", throttle_variables.speed_error.terms.zero),
       Term("speed_error", "positive_small",
            throttle_variables.speed_error.terms.positive_small),
       Term("speed_error", "positive_large",
            throttle_variables.speed_error.terms.positive_large),
       Term("acceleration", "negative",
            throttle_variables.acceleration.terms.negative),
       Term("acceleration", "zero", throttle_variables.acceleration.terms.zero),
       Term("acceleration", "positive",
            throttle_variables.acceleration.terms.positive),
       Term("throttle", "very_low", throttle_variables.throttle.terms.very_low),
       Term("throttle", "low", throttle_variables.throttle.terms.low),
       Term("throttle", "medium", throttle_variables.throttle.terms.medium),
       Term("throttle", "high", throttle_variables.throttle.terms.high),
       Term("throttle", "very_high",
            throttle_variables.throttle.terms.very_high) >>
    \o [i \in 1..Len(throttle_rules) |->
          RuleOf(throttle_rules[i].antecedent, "throttle",
                 throttle_rules[i].consequent)]
    \o << System(Len(throttle_rules)), Simulation >>

Scripts == {"tipper-zad3.py", "hamowanie-zad4-6.py", "jakosc-owocow-zad7.py",
            "fuzzy_controller.py"}

Program(file) ==
    CASE file = "tipper-zad3.py" -> tipper_script
      [] file = "hamowanie-zad4-6.py" -> braking_script
      [] file = "jakosc-owocow-zad7.py" -> fruit_script
      [] file = "fuzzy_controller.py" -> controller_script

\* The start of one of the scripts: nothing is built yet.
BuildInit ==
    /\ CarInit({Z(DefaultMass)}, {Z(10)})
    /\ drv = NoDriver
    /\ mf = NoMf
    /\ simulator = NoSimulator
    /\ callers = <<>>
    /\ rule_base = <<>>
    /\ brake = NoBrake
    /\ app = NoApp
    /\ \E file \in Scripts :
          script = [file |-> file, pc |-> 1, universes |-> {}, terms |-> {},
                    rules |-> <<>>, systems |-> <<>>, simulations |-> <<>>,
                    raised |-> FALSE]

\* The statement the script is about to execute.
AtStatement(kind) ==
    /\ ~script.raised
    /\ script.pc \in DOMAIN Program(script.file)
    /\ Program(script.file)[script.pc][1] = kind

Statement == Program(script.file)[script.pc]

\* The (variable, term) pairs an antecedent looks up.
RECURSIVE terms_used(_)
terms_used(antecedent) ==
    IF antecedent[1] = "is" THEN {<<antecedent[2], antecedent[3]>>}
    ELSE terms_used(antecedent[2]) \cup terms_used(antecedent[3])

\* The (variable, term) pairs defined so far.
defined_terms == {<<t[1], t[2]>> : t \in script.terms}

BuildUnchanged ==
    UNCHANGED <<carParams, carState, history, ret, last, steps, drv, mf,
                simulator, callers, rule_base, brake, app>>

\* ctrl.Antecedent(...) / ctrl.Consequent(...)
DefineVariable ==
    /\ AtStatement("variable")
    /\ script' = [script EXCEPT
                    !.pc = @ + 1,
                    !.universes = @ \cup {<<Statement[2], Statement[3]>>}]
    /\ BuildUnchanged

\* variable[name] = membership function
DefineTerm ==
    /\ AtStatement("term")
    /\ script' = [script EXCEPT
                    !.pc = @ + 1,
                    !.terms = @ \cup
                        {<<Statement[2], Statement[3], Statement[4]>>}]
    /\ BuildUnchanged

\* ctrl.Rule(...): variable[name] raises ValueError for a name that has no
\* membership function on the variable, and the script ends there.
BuildRule ==
    /\ AtStatement("rule")
    /\ IF terms_used(Statement[2]) \cup {Statement[3]} \subseteq defined_terms
       THEN script' = [script EXCEPT !.pc = @ + 1,
                                     !.rules = Append(@, Statement)]
       ELSE script' = [script EXCEPT !.raised = TRUE]
    /\ BuildUnchanged

\* ctrl.ControlSystem([...]) over the rules just built
BuildSystem ==
    /\ AtStatement("system")
    /\ script' = [script EXCEPT
                    !.pc = @ + 1,
                    !.systems = Append(@, SubSeq(script.rules,
                                   Len(script.rules) - Statement[2] + 1,
                                   Len(script.rules)))]
    /\ BuildUnchanged

\* ctrl.ControlSystemSimulation(system)
CreateSimulation ==
    /\ AtStatement("simulation")
    /\ script' = [script EXCEPT
                    !.pc = @ + 1,
                    !.simulations = Append(@, Len(script.systems))]
    /\ BuildUnchanged

BuildNext ==
    DefineVariable \/ DefineTerm \/ BuildRule \/ BuildSystem
        \/ CreateSimulation

SpecBuild == BuildInit /\ [][BuildNext]_vars

\* The closed support <<lo, hi>> of a membership function.
support(shape) == <<shape[2][1], shape[2][Len(shape[2])]>>

\* C21: for every linguistic variable built, the support of each of its
\* terms lies within the variable's universe range: between the first and
\* the last sample of its grid.
C21_SupportWithinUniverse ==
    \A u \in script.universes : \A t \in script.terms :
        t[1] = u[1] =>
            /\ RLe(u[2][1], support(t[3])[1])
            /\ RLe(support(t[3])[2], u[2][Len(u[2])])

\* C25: each (variable, term) pair of the rule a script is about to build
\* names a term already defined on that variable.
C25_RuleTermsDefined ==
    AtStatement("rule") =>
        terms_used(Statement[2]) \cup {Statement[3]} \subseteq defined_terms

(***************************************************************************)
(* FuzzyCarUI (src/ui/ui_app.py): the window's simulation state, its       *)
(* buttons and sliders and the timer slot _simulation_step, driving a      *)
(* CarSimulation and a FuzzyThrottleController.                            *)
(***************************************************************************)
\* self.max_history_length = 200 and self.viz_update_interval = 1
max_history_length == 200
viz_update_interval == 1

\* At most MaxEvents handler calls are followed, and the running steps of
\* the simulation are followed from the car states whose position is a
\* fraction with a denominator of at most MaxDenominator: the exact
\* fractions of the later states do not fit 32-bit integers.
MaxEvents == 5
MaxDenominator == 40

EmptyUiHistory ==
    [time |-> <<>>, speed |-> <<>>, target_speed |-> <<>>,
     throttle |-> <<>>, speed_error |-> <<>>, position_x |-> <<>>,
     position_y |-> <<>>]

\* Slider moves: the new integer position of the slider.
MassSliderValues == {20, 40}
DragSliderValues == {10, 20}
PowerSliderValues == {10, 4}
TargetSliderValues == {20, 30}
ManualThrottleSliderValues == {0, 50}

\* The lengths of the uninterrupted timer runs that are followed.
RunLengths == {max_history_length}

\* FuzzyCarUI.__init__: the car, the controller, the simulation state and
\* the sliders at their defaults; the timer is created but not started.
UiInit ==
    /\ CarInit({Z(1000)}, {R(1, 10)})
    /\ drv = NoDriver
    /\ mf = NoMf
    /\ simulator = create_control_system
    /\ rule_base = throttle_rules
    /\ callers = <<>>
    /\ brake = NoBrake
    /\ script = NoScript
    /\ app = [running |-> FALSE, timer |-> FALSE, time |-> Z(0),
              target_speed |-> Z(20), manual_mode |-> FALSE,
              manual_throttle |-> Z(50), sim_step_counter |-> 0,
              history |-> EmptyUiHistory,
              mass_slider |-> 1000 \div 50, drag_slider |-> 50 \div 5,
              power_slider |-> 10, op |-> "__init__"]

\* OvalTrack.get_position(distance): the point of the ellipse at the angle
\* t = (distance % perimeter) / perimeter * 2 pi.  cos, sin and arctan2 are
\* kept as symbols applied to the distance.
get_position(distance) ==
    [x |-> <<"a*cos(t)", distance>>, y |-> <<"b*sin(t)", distance>>,
     angle |-> <<"arctan2", distance>>]

\* Mutant of append_history: the newest entry is the one removed.
append_history_pops_last(h, x, y, target_speed, throttle, speed_error, time, spd) ==
    LET a == [time |-> Append(h.time, time),
              speed |-> Append(h.speed, spd),
              target_speed |-> Append(h.target_speed, target_speed),
              throttle |-> Append(h.throttle, throttle),
              speed_error |-> Append(h.speed_error, speed_error),
              position_x |-> Append(h.position_x, x),
              position_y |-> Append(h.position_y, y)]
    IN IF Len(a.time) > max_history_length
       THEN [key \in DOMAIN a |-> SubSeq(a[key], 1, Len(a[key]) - 1)]
       ELSE a

\* FuzzyCarUI._append_history, with time and speed the values of self.time
\* and self.car.speed at the call.
append_history(h, x, y, target_speed, throttle, speed_error, time, spd) ==
    LET a == [time |-> Append(h.time, time),
              speed |-> Append(h.speed, spd),
              target_speed |-> Append(h.target_speed, target_speed),
              throttle |-> Append(h.throttle, throttle),
              speed_error |-> Append(h.speed_error, speed_error),
              position_x |-> Append(h.position_x, x),
              position_y |-> Append(h.position_y, y)]
    IN IF Len(a.time) > max_history_length
       THEN [key \in DOMAIN a |-> Tail(a[key])]
       ELSE a

\* Mutant of ui_speed_error: the difference is taken the other way round.
ui_speed_error_reversed == RMul(RSub(speed, app.target_speed), R(36, 10))

\* speed_error = (target_speed - self.car.speed) * 3.6
ui_speed_error == RMul(RSub(app.target_speed, speed), R(36, 10))

UiUnchanged ==
    UNCHANGED <<dt, history, drv, mf, rule_base, brake, script>>

\* FuzzyCarUI._update_car_params: a move of one of the three sliders.
UpdateCarParams ==
    /\ steps < MaxEvents
    /\ \E m \in MassSliderValues \cup {app.mass_slider},
          d \in DragSliderValues \cup {app.drag_slider},
          p \in PowerSliderValues \cup {app.power_slider} :
          /\ Cardinality({k \in {1, 2, 3} :
                 <<m, d, p>>[k] # <<app.mass_slider, app.drag_slider,
                                    app.power_slider>>[k]}) = 1
          /\ mass' = Z(m * 50)
          /\ drag_coeff' = Z(d * 5)
          /\ max_throttle' = RMul(RMul(Z(p), R(1, 2)), Z(1000))
          /\ app' = [app EXCEPT !.mass_slider = m, !.drag_slider = d,
                                !.power_slider = p,
                                !.op = "_update_car_params"]
    /\ steps' = steps + 1
    /\ UNCHANGED <<carState, simulator, ret, last>>
    /\ UNCHANGED callers
    /\ UiUnchanged

\* FuzzyCarUI._update_target_speed
UpdateTargetSpeed ==
    /\ steps < MaxEvents
    /\ \E v \in TargetSliderValues :
          /\ Z(v) # app.target_speed
          /\ app' = [app EXCEPT !.target_speed = Z(v),
                                !.op = "_update_target_speed"]
    /\ steps' = steps + 1
    /\ UNCHANGED <<mass, drag_coeff, max_throttle, carState, simulator, ret,
                   last>>
    /\ UNCHANGED callers
    /\ UiUnchanged

\* FuzzyCarUI._update_manual_throttle
UpdateManualThrottle ==
    /\ steps < MaxEvents
    /\ \E v \in ManualThrottleSliderValues :
          /\ Z(v) # app.manual_throttle
          /\ app' = [app EXCEPT !.manual_throttle = Z(v),
                                !.op = "_update_manual_throttle"]
    /\ steps' = steps + 1
    /\ UNCHANGED <<mass, drag_coeff, max_throttle, carState, simulator, ret,
                   last>>
    /\ UNCHANGED callers
    /\ UiUnchanged

\* Mutant of ToggleSimulation: the timer is started and never stopped.
ToggleSimulation_never_stops_timer ==
    /\ steps < MaxEvents
    /\ app' = [app EXCEPT !.running = ~app.running,
                          !.timer = TRUE,
                          !.op = "_toggle_simulation"]
    /\ steps' = steps + 1
    /\ UNCHANGED <<mass, drag_coeff, max_throttle, carState, simulator, ret,
                   last>>
    /\ UNCHANGED callers
    /\ UiUnchanged

\* FuzzyCarUI._toggle_simulation
ToggleSimulation ==
    /\ steps < MaxEvents
    /\ app' = [app EXCEPT !.running = ~app.running,
                          !.timer = ~app.running,
                          !.op = "_toggle_simulation"]
    /\ steps' = steps + 1
    /\ UNCHANGED <<mass, drag_coeff, max_throttle, carState, simulator, ret,
                   last>>
    /\ UNCHANGED callers
    /\ UiUnchanged

\* Mutant of ResetSimulation: the simulated time is kept.
ResetSimulation_keeps_time ==
    /\ steps < MaxEvents
    /\ app' = [app EXCEPT !.running = FALSE, !.timer = FALSE,
                          !.sim_step_counter = 0,
                          !.history = [key \in DOMAIN app.history |-> <<>>],
                          !.op = "_reset_simulation"]
    /\ position' = Z(0)
    /\ speed' = Z(0)
    /\ acceleration' = Z(0)
    /\ history' = EmptyHistory
    /\ ret' = None
    /\ last' = [op |-> "reset", throttle |-> None, dt |-> None,
                time |-> None]
    /\ steps' = steps + 1
    /\ UNCHANGED <<mass, drag_coeff, max_throttle, dt, simulator, drv, mf,
                   callers, rule_base, brake, script>>

\* FuzzyCarUI._reset_simulation, with the body of CarSimulation.reset
ResetSimulation ==
    /\ steps < MaxEvents
    /\ app' = [app EXCEPT !.running = FALSE, !.timer = FALSE,
                          !.time = Z(0), !.sim_step_counter = 0,
                          !.history = [key \in DOMAIN app.history |-> <<>>],
                          !.op = "_reset_simulation"]
    /\ position' = Z(0)
    /\ speed' = Z(0)
    /\ acceleration' = Z(0)
    /\ history' = EmptyHistory
    /\ ret' = None
    /\ last' = [op |-> "reset", throttle |-> None, dt |-> None,
                time |-> None]
    /\ steps' = steps + 1
    /\ UNCHANGED <<mass, drag_coeff, max_throttle, dt, simulator, drv, mf,
                   callers, rule_base, brake, script>>

\* FuzzyCarUI._toggle_mode
ToggleMode ==
    /\ steps < MaxEvents
    /\ app' = [app EXCEPT !.manual_mode = ~app.manual_mode,
                          !.op = "_toggle_mode"]
    /\ steps' = steps + 1
    /\ UNCHANGED <<mass, drag_coeff, max_throttle, carState, simulator, ret,
                   last>>
    /\ UNCHANGED callers
    /\ UiUnchanged

\* FuzzyCarUI._simulation_step, the slot of the timer: it returns at once
\* when the simulation is not running; a ValueError of the controller
\* leaves the slot before car.update.
SimulationStep ==
    /\ steps < MaxEvents
    /\ app.running => position[2] <= MaxDenominator
    /\ steps' = steps + 1
    /\ IF ~app.running
       THEN /\ app' = [app EXCEPT !.op = "_simulation_step"]
            /\ UNCHANGED <<mass, drag_coeff, max_throttle, carState,
                           simulator, callers, ret, last>>
       ELSE \E speed_error \in {ui_speed_error} :
            \E call \in {IF app.manual_mode
                         THEN [simulator |-> simulator, called |-> FALSE,
                               result |-> app.manual_throttle]
                         ELSE [called |-> TRUE] @@
                              compute_throttle(simulator, rule_base,
                                               speed_error, acceleration)} :
            /\ simulator' = call.simulator
            /\ callers' = IF call.called
                          THEN <<[pc |-> "returned",
                                  speed_error |-> speed_error,
                                  acceleration |-> acceleration,
                                  result |-> call.result]>>
                          ELSE callers
            /\ IF call.result = ValueError
               THEN /\ app' = [app EXCEPT !.op = "_simulation_step"]
                    /\ UNCHANGED <<mass, drag_coeff, max_throttle, carState,
                                   ret, last>>
               ELSE \E state \in {update(call.result, None)} :
                    LET point == get_position(position)
                        target_speed == app.target_speed
                        throttle == call.result
                        time == RAdd(app.time, dt)
                        counter == app.sim_step_counter + 1
                    IN /\ position' = state.position
                       /\ speed' = state.speed
                       /\ acceleration' = state.acceleration
                       /\ ret' = state
                       /\ last' = [op |-> "update", throttle |-> throttle,
                                   dt |-> None, time |-> None]
                       /\ app' = [app EXCEPT
                             !.time = time,
                             !.history = append_history(app.history,
                                 point.x, point.y, target_speed, throttle,
                                 speed_error, time, state.speed),
                             !.sim_step_counter =
                                 IF counter >= viz_update_interval
                                 THEN 0 ELSE counter,
                             !.op = "_simulation_step"]
                       /\ UNCHANGED <<mass, drag_coeff, max_throttle>>
    /\ UiUnchanged

\* The history after n more steps of the timer that start at the time
\* given and append the same car state each: n calls of _append_history.
RECURSIVE run_history(_, _, _, _)
run_history(h, time, n, e) ==
    IF n = 0 THEN h
    ELSE IF n = 1
    THEN append_history(h, e.x, e.y, e.target_speed, e.throttle,
                        e.speed_error, RAdd(time, dt), e.speed)
    ELSE LET k == n \div 2
         IN CHOOSE last_history \in
                {run_history(first, RAdd(time, RMul(Z(k), dt)), n - k, e) :
                    first \in {run_history(h, time, k, e)}} : TRUE

\* n firings of the timer in a row, with no other event between them, in
\* manual mode while the car is at rest with the pedal released: every
\* _simulation_step of the run leaves the car where it is.
TimerRun ==
    /\ steps < MaxEvents
    /\ steps' = steps + 1
    /\ app.running
    /\ app.manual_mode
    /\ LET state == update(app.manual_throttle, None)
           point == get_position(position)
       IN /\ state.position = position
          /\ state.speed = speed
          /\ state.acceleration = acceleration
          /\ \E n \in RunLengths :
                app' = [app EXCEPT
                   !.time = RAdd(app.time, RMul(Z(n), dt)),
                   !.history = run_history(app.history, app.time, n,
                       [x |-> point.x, y |-> point.y,
                        target_speed |-> app.target_speed,
                        throttle |-> app.manual_throttle,
                        speed_error |-> ui_speed_error,
                        speed |-> state.speed]),
                   !.sim_step_counter = 0,
                   !.op = "_simulation_step (run)"]
          /\ ret' = state
          /\ last' = [op |-> "update", throttle |-> app.manual_throttle,
                      dt |-> None, time |-> None]
    /\ UNCHANGED <<mass, drag_coeff, max_throttle, carState, simulator>>
    /\ UNCHANGED callers
    /\ UiUnchanged

UiNext ==
    \/ UpdateCarParams
    \/ UpdateTargetSpeed
    \/ UpdateManualThrottle
    \/ ToggleSimulation
    \/ ResetSimulation
    \/ ToggleMode
    \/ SimulationStep
    \/ TimerRun

SpecUI == UiInit /\ [][UiNext]_vars

\* A step of the behaviour that is one call of _simulation_step.
IsSimulationStep == steps' # steps /\ app'.op = "_simulation_step"

\* C22: the seven lists of the UI history always have the same length, at
\* most max_history_length, and a _simulation_step that appends to a full
\* history removes the oldest entry of every list: the entries 2..200 move
\* up by one and the new entry is the last.
C22_HistoryBoundedAligned ==
    [][/\ \A key \in DOMAIN app.history :
             /\ Len(app.history[key]) = Len(app.history.time)
             /\ Len(app'.history[key]) = Len(app'.history.time)
       /\ Len(app.history.time) <= max_history_length
       /\ Len(app'.history.time) <= max_history_length
       /\ (/\ IsSimulationStep
           /\ app'.time # app.time
           /\ Len(app.history.time) = max_history_length)
          => /\ \A key \in DOMAIN app.history :
                   SubSeq(app'.history[key], 1, max_history_length - 1)
                       = Tail(app.history[key])
             /\ app'.history.time[max_history_length] = app'.time
      ]_vars

\* The history is full, the entry of time 0.1 has been removed and the one
\* of time 20.1 is the newest.
C22_Witness ==
    /\ app.op = "_simulation_step"
    /\ Len(app.history.time) = max_history_length
    /\ app.history.time[1] = R(2, 10)
    /\ app.history.time[max_history_length] = R(201, 10)

\* C23: _reset_simulation, from any reachable state, leaves running False,
\* the timer stopped, time = 0, sim_step_counter = 0, the car's position,
\* speed and acceleration 0 and every list of the UI history empty, and it
\* leaves manual_mode, manual_throttle, target_speed and the car's mass,
\* drag_coeff and max_throttle as they were.
C23_ResetRestoresInitial ==
    [][(steps' # steps /\ app'.op = "_reset_simulation") =>
           /\ app'.running = FALSE
           /\ app'.timer = FALSE
           /\ app'.time = Z(0)
           /\ app'.sim_step_counter = 0
           /\ position' = Z(0)
           /\ speed' = Z(0)
           /\ acceleration' = Z(0)
           /\ \A key \in DOMAIN app'.history : app'.history[key] = <<>>
           /\ app'.manual_mode = app.manual_mode
           /\ app'.manual_throttle = app.manual_throttle
           /\ app'.target_speed = app.target_speed
           /\ UNCHANGED <<mass, drag_coeff, max_throttle>>
      ]_vars

\* A reset in manual mode with the target speed moved to 30, after a step
\* in which the controller was called (the car had moved).
C23_Witness ==
    /\ app.op = "_reset_simulation"
    /\ simulator.output.throttle # None
    /\ app.manual_mode
    /\ app.target_speed = Z(30)

\* C26: the timer is active exactly when running is True, and a
\* _simulation_step that runs while running is False changes neither the
\* car state, the time, the step counter nor the history.
C26_TimerFollowsRunning ==
    [][/\ app.timer <=> app.running
       /\ app'.timer <=> app'.running
       /\ (IsSimulationStep /\ ~app.running) =>
             /\ UNCHANGED <<position, speed, acceleration>>
             /\ app'.time = app.time
             /\ app'.sim_step_counter = app.sim_step_counter
             /\ app'.history = app.history
      ]_vars

\* _simulation_step has run on a paused simulation that has a history.
C26_Witness ==
    /\ app.op = "_simulation_step"
    /\ ~app.running
    /\ ~app.timer
    /\ Len(app.history.time) > 0

\* C27: a running _simulation_step gives car.update the throttle
\* manual_throttle in manual mode, without calling the controller, and
\* otherwise compute_throttle((target_speed - speed) * 3.6, acceleration)
\* of the car state before the update; it advances time by car.dt and
\* appends one entry to the history.
C27_StepThrottleTimeHistory ==
    [][(IsSimulationStep /\ app.running) =>
          \A speed_error \in
               {RMul(RSub(app.target_speed, speed), R(36, 10))} :
          \A throttle \in
               {IF app.manual_mode THEN app.manual_throttle
                ELSE compute_throttle(simulator, rule_base, speed_error,
                                      acceleration).result} :
             /\ last'.op = "update"
             /\ last'.throttle = throttle
             /\ \A state \in {update(throttle, None)} :
                   /\ position' = state.position
                   /\ speed' = state.speed
                   /\ acceleration' = state.acceleration
             /\ app.manual_mode =>
                   (simulator' = simulator /\ callers' = callers)
             /\ app'.time = RAdd(app.time, dt)
             /\ Len(app'.history.time) =
                   IF Len(app.history.time) < max_history_length
                   THEN Len(app.history.time) + 1
                   ELSE max_history_length
             /\ app'.history.time[Len(app'.history.time)] = app'.time
             /\ app'.history.throttle[Len(app'.history.time)] = throttle
      ]_vars

\* A step in fuzzy mode on a moving car: the controller was called with
\* the acceleration 5/2 and returned 823/9, the throttle given to update.
C27_Witness ==
    /\ app.op = "_simulation_step"
    /\ app.running
    /\ ~app.manual_mode
    /\ callers # <<>>
    /\ callers[1].acceleration = R(5, 2)
    /\ last.throttle = R(823, 9)
    /\ app.history.throttle = <<Z(50), R(823, 9)>>

(***************************************************************************)
(* compute_throttle over the whole input domain: one call of a fresh       *)
(* FuzzyThrottleController for each pair of arguments of a grid that holds *)
(* every corner point of the input terms, the points between them and      *)
(* arguments outside the universes.                                        *)
(***************************************************************************)
CoverSpeedErrors == {R(5 * k, 2) : k \in -12..12} \cup {Z(-40), Z(40)}
CoverAccelerations == {Z(k) : k \in -10..10} \cup {Z(-12), Z(12)}

\* controller = FuzzyThrottleController() and the arguments of the call
CoverInit ==
    /\ CarInit({Z(DefaultMass)}, {Z(10)})
    /\ drv = NoDriver
    /\ mf = NoMf
    /\ simulator = create_control_system
    /\ rule_base = throttle_rules
    /\ \E speed_error \in CoverSpeedErrors, acc \in CoverAccelerations :
          callers = <<[pc |-> "called", speed_error |-> speed_error,
                       acceleration |-> acc, result |-> None]>>
    /\ brake = NoBrake
    /\ script = NoScript
    /\ app = NoApp

\* throttle = controller.compute_throttle(speed_error, acceleration)
CoverCompute ==
    /\ callers[1].pc = "called"
    /\ \E call \in {compute_throttle(simulator, rule_base,
                        callers[1].speed_error, callers[1].acceleration)} :
          /\ simulator' = call.simulator
          /\ callers' = <<[callers[1] EXCEPT !.pc = "returned",
                                             !.result = call.result]>>
    /\ UNCHANGED <<carParams, carState, history, ret, last, steps, drv, mf,
                   rule_base, brake, script, app>>

CoverNext == CoverCompute

SpecCover == CoverInit /\ [][CoverNext]_vars

\* The inputs of a call after the two np.clip.
clamped_input(call) ==
    [speed_error |-> clip(call.speed_error, Z(-30), Z(30)),
     acceleration |-> clip(call.acceleration, Z(-10), Z(10))]

\* C24: for every speed_error in [-30, 30] and acceleration in [-10, 10]
\* left after clamping, at least one of the 12 rules has a firing strength
\* above 0, the aggregated throttle set is not identically zero and
\* compute_throttle returns a throttle, not the zero-activation error.
C24_RulesCoverDomain ==
    /\ \E i \in DOMAIN rule_base :
          RLt(Z(0), firing(throttle_variables, rule_base[i].antecedent,
                           clamped_input(callers[1])))
    /\ callers[1].pc = "returned" =>
          /\ callers[1].result # ValueError
          /\ \E mu \in {aggregate(throttle_variables, rule_base, "throttle",
                                  simulator.input)} :
                \E x \in DOMAIN mu : RLt(Z(0), mu[x])

\* The call at the centre of the domain, where only the rule of a zero
\* error and a zero acceleration fires: the throttle is 50.
C24_Witness ==
    /\ callers[1].pc = "returned"
    /\ callers[1].speed_error = Z(0)
    /\ callers[1].acceleration = Z(0)
    /\ callers[1].result = Z(50)

(***************************************************************************)
(* The speed bound of CarSimulation, checked under Spec.                   *)
(***************************************************************************)
\* dt * drag_coeff / mass of an update step, with the dt the step used.
StepRatio == RDiv(RMul(DtUsed, drag_coeff), mass)

\* The terminal velocity at full throttle, max_throttle / drag_coeff.
terminal_velocity == RDiv(max_throttle, drag_coeff)

\* C28: starting from the reset state, update calls with any throttle and
\* a dt with 0 < dt * drag_coeff / mass <= 1 never take the speed above
\* max_throttle / drag_coeff and never decrease the position.  Stated step
\* by step: the speed is within the bound at the start, and an update with
\* such a dt from a speed within the bound ends within the bound, with the
\* position not below the one before.
C28_SpeedBoundedPositionMonotone ==
    [][/\ (position = Z(0) /\ speed = Z(0)) =>
             RLe(speed, terminal_velocity)
       /\ (/\ IsUpdateStep
           /\ RLt(Z(0), StepRatio)
           /\ RLe(StepRatio, Z(1))
           /\ RLe(speed, terminal_velocity))
          => /\ RLe(speed', terminal_velocity)
             /\ RLe(position, position')
      ]_vars

\* Full throttle from rest with dt * drag_coeff / mass = 1 (mass 500,
\* dt 10): the speed reaches the terminal velocity 100 in one step.
C28_Witness ==
    /\ last.op = "update"
    /\ last.dt = None
    /\ mass = Z(500)
    /\ dt = Z(10)
    /\ speed = terminal_velocity
    /\ position = Z(1000)

====
